---- MODULE Spec2Model ----
(***************************************************************************)
(* Cube quadruplets a^3 + b^3 + c^3 = d^3 (d = a + n, d > a > b > c > 0):  *)
(* the search core of app.py, app-p.py and quadrapulets.py.                *)
(*                                                                         *)
(* The program is single-threaded: every entry point is a pure function of *)
(* its arguments that a user interface calls and whose return value it     *)
(* shows.  The state is the call in progress (fn, args) and its returned   *)
(* value (ret).  One action per entry point performs the whole call; the   *)
(* loops of the code are RECURSIVE operators over the loop's locals.       *)
(* A returned text is modelled by the facts it states (which branch built  *)
(* it, the iteration count it prints, whether it holds the "Search         *)
(* stopped" notice), not by its characters.                                *)
(***************************************************************************)
EXTENDS Integers, Sequences, FiniteSets, TLC

VARIABLES fn, args, ret, fpErr

vars == <<fn, args, ret, fpErr>>

(* ------------------------------ bounds -------------------------------- *)

\* single-point search: a in NonPos \cup 1..MaxA, n in NonPos \cup 1..MaxN
MaxA == 37
MaxN == 9
\* iteration budgets tried: NonPos \cup 1..MaxIter \cup {TestBudget, UiBudget}
MaxIter == 8

\* scaling factors tried by the search with factors
MaxFactor == 3
\* range searches: bounds of a in 0..RangeMaxA, of n in 0..RangeMaxN,
\* budgets 0..RangeMaxIter and the default of the interface, factors
\* 0..RangeMaxFactor
RangeMaxA == 10
RangeMaxN == 2
RangeMaxIter == 2
RangeMaxFactor == 2
\* components of the quadruplets verified and reduced: 0..MaxValue
MaxValue == 6

\* the bisection of the cube root starts from 0..RootCeiling (every cube in
\* the model is far below RootCeiling^3)
RootCeiling == 600

\* representatives of the non-positive inputs
NonPos == {-1, 0}

(* ------------------------- program constants --------------------------- *)

DefaultMaxIterations == 10000
TestBudget == 15000
UiBudget == 20000
ProgressEvery == 1000
DefaultMaxFactor == 5
DefaultMaxIterationsPerCombo == 5000
DefaultRangeMaxFactor == 3
UiRangeBudget == 3000

(* ------------------------------ helpers -------------------------------- *)

Abs(x) == IF x < 0 THEN -x ELSE x

\* the nearest integer to the real cube root of x >= 1: the c with
\* (2c-1)^3 <= 8x < (2c+1)^3, found by bisection on lo..hi
RECURSIVE NearestCubeRoot(_, _, _)
NearestCubeRoot(x, lo, hi) ==
    IF lo >= hi THEN lo
    ELSE LET mid == (lo + hi) \div 2
         IN  IF (2 * mid + 1) ^ 3 <= 8 * x
             THEN NearestCubeRoot(x, mid + 1, hi)
             ELSE NearestCubeRoot(x, lo, mid)

\* variant: int() in place of round(), on an estimate that lies just below
\* the exact root of a perfect cube (as 64 ** (1/3) does)
round_cube_root_truncated(c_cubed_needed) ==
    LET c == NearestCubeRoot(c_cubed_needed, 0,
                 IF c_cubed_needed < RootCeiling THEN c_cubed_needed
                 ELSE RootCeiling) + fpErr
    IN  IF c ^ 3 >= c_cubed_needed THEN c - 1 ELSE c

\* c_exact = c_cubed_needed**(1/3); c = round(c_exact)
\* The float power is within one unit in the last place, so for the
\* magnitudes of the model round() yields the nearest integer (fpErr = 0);
\* fpErr /= 0 is an estimate that is off by one, as a float can be for
\* operands beyond its 53-bit mantissa.
round_cube_root(c_cubed_needed) ==
    NearestCubeRoot(c_cubed_needed, 0,
                    IF c_cubed_needed < RootCeiling THEN c_cubed_needed
                    ELSE RootCeiling) + fpErr

\* variant: a tolerance sized for floats, which lets near cubes pass
within_tolerance_loose(x) == Abs(x) < 100

\* abs(x) < 1e-10 on a Python int: only x = 0 passes
within_tolerance(x) == Abs(x) < 1

\* the tests on a candidate c: its cube is the needed cube, it lies below
\* b, a and d, and the equation holds
\* variant: the ordering test c < b is missing
accept_candidate_unordered(a, b, c, d, c_cubed_needed) ==
    /\ within_tolerance(c ^ 3 - c_cubed_needed)
    /\ c > 0 /\ c < d
    /\ c # a /\ c # b /\ c # d
    /\ within_tolerance(a ^ 3 + b ^ 3 + c ^ 3 - d ^ 3)

accept_candidate(a, b, c, d, c_cubed_needed) ==
    /\ within_tolerance(c ^ 3 - c_cubed_needed)
    /\ c > 0 /\ c < b /\ c < a /\ c < d
    /\ c # a /\ c # b /\ c # d
    /\ within_tolerance(a ^ 3 + b ^ 3 + c ^ 3 - d ^ 3)

\* the quadruplet (a, b, c, d) as a one-element list if c is accepted
\* variant: the tuple is stored with b and c exchanged
candidate_list_exchanged(a, b, c, d, c_cubed_needed) ==
    IF accept_candidate(a, b, c, d, c_cubed_needed)
    THEN << <<a, c, b, d>> >>
    ELSE <<>>

candidate_list(a, b, c, d, c_cubed_needed) ==
    IF accept_candidate(a, b, c, d, c_cubed_needed)
    THEN << <<a, b, c, d>> >>
    ELSE <<>>

\* body of the b-loop after the cap test: the list of the quadruplet
\* accepted for this b (empty when the candidate is discarded)
try_b(a, b, d, target_sum) ==
    IF b >= a \/ b >= d THEN <<>>
    ELSE LET b_cubed == b ^ 3
             c_cubed_needed == target_sum - b_cubed
         IN  IF c_cubed_needed <= 0 THEN <<>>
             ELSE candidate_list(a, b, round_cube_root(c_cubed_needed), d,
                                 c_cubed_needed)

(* ------------------- app.py: single-point search ----------------------- *)

\* locals of the b-loop: the iteration counter, the list built so far,
\* whether the break of the cap was taken, and what search_details holds
LoopInit == [iterations |-> 0, quadruplets |-> <<>>, capHit |-> FALSE,
             notice |-> FALSE, progress |-> 0]

\* variant: the cap test is iterations >= max_iterations
RECURSIVE improved_loop_early(_, _, _, _, _, _)
improved_loop_early(a, d, target_sum, max_iterations, b, st) ==
    IF b < 1 THEN st
    ELSE LET it == st.iterations + 1
             pr == IF it % ProgressEvery = 0 THEN st.progress + 1
                   ELSE st.progress
         IN  IF it >= max_iterations
             THEN [st EXCEPT !.iterations = it, !.progress = pr,
                             !.capHit = TRUE, !.notice = TRUE]
             ELSE improved_loop_early(a, d, target_sum, max_iterations, b - 1,
                      [st EXCEPT !.iterations = it, !.progress = pr,
                                 !.quadruplets = @ \o try_b(a, b, d, target_sum)])

\* for b in range(max_b, 0, -1): ...
RECURSIVE improved_loop(_, _, _, _, _, _)
improved_loop(a, d, target_sum, max_iterations, b, st) ==
    IF b < 1 THEN st
    ELSE LET it == st.iterations + 1
             pr == IF it % ProgressEvery = 0 THEN st.progress + 1
                   ELSE st.progress
         IN  IF it > max_iterations
             THEN [st EXCEPT !.iterations = it, !.progress = pr,
                             !.capHit = TRUE, !.notice = TRUE]
             ELSE improved_loop(a, d, target_sum, max_iterations, b - 1,
                      [st EXCEPT !.iterations = it, !.progress = pr,
                                 !.quadruplets = @ \o try_b(a, b, d, target_sum)])

\* the value returned on the error path: a message and an empty list
ErrorResult == [error |-> TRUE, quadruplets |-> <<>>, iterations |-> 0,
                capHit |-> FALSE,
                text |-> [kind |-> "error", notice |-> FALSE,
                          iterations |-> 0, progress |-> 0]]

\* variant: the budget is taken as given, without the default
effective_max_iterations_raw(max_iterations) == max_iterations

\* max_iterations = int(max_iterations) if max_iterations > 0 else 10000
effective_max_iterations(max_iterations) ==
    IF max_iterations > 0 THEN max_iterations ELSE DefaultMaxIterations

\* the summary and the returned pair: search_details (with the notice) is
\* appended to the text only when quadruplets is not empty
improved_result(st, max_iterations) ==
    [error |-> FALSE, quadruplets |-> st.quadruplets,
     iterations |-> st.iterations, capHit |-> st.capHit,
     max_iterations |-> max_iterations,
     text |-> IF st.quadruplets = <<>>
              THEN [kind |-> "none_found", notice |-> FALSE,
                    iterations |-> st.iterations, progress |-> 0]
              ELSE [kind |-> "found", notice |-> st.notice,
                    iterations |-> st.iterations,
                    progress |-> st.progress]]

find_cube_quadruplets_improved(a, n, max_iterations_in) ==
    IF a <= 0 \/ n <= 0 THEN ErrorResult
    ELSE LET max_iterations == effective_max_iterations(max_iterations_in)
             d == a + n
             target_sum == d ^ 3 - a ^ 3
             max_b == a - 1
         IN  improved_result(
                 improved_loop(a, d, target_sum, max_iterations, max_b,
                               LoopInit),
                 max_iterations)

(* ---------------- app-p.py: gcd and primitive form ---------------------- *)

\* math.gcd on non-negative integers (Euclid)
RECURSIVE gcd(_, _)
gcd(x, y) == IF y = 0 THEN x ELSE gcd(y, x % y)

\* reduce(gcd, numbers): left fold of gcd over the sequence, from index i
\* with accumulator acc
RECURSIVE reduce_gcd(_, _, _)
reduce_gcd(numbers, i, acc) ==
    IF i > Len(numbers) THEN acc
    ELSE reduce_gcd(numbers, i + 1, gcd(acc, numbers[i]))

\* variant: the fold stops after the second number
find_gcd_first_two(numbers) == gcd(numbers[1], numbers[2])

find_gcd_multiple(numbers) == reduce_gcd(numbers, 2, numbers[1])

is_primitive_solution(a, b, c, d) == find_gcd_multiple(<<a, b, c, d>>) = 1

\* variant: the factor is computed but the components are returned undivided
get_primitive_form_undivided(a, b, c, d) ==
    <<a, b, c, d, find_gcd_multiple(<<a, b, c, d>>)>>

get_primitive_form(a, b, c, d) ==
    LET common_factor == find_gcd_multiple(<<a, b, c, d>>)
    IN  <<a \div common_factor, b \div common_factor,
          c \div common_factor, d \div common_factor, common_factor>>

\* x in list
InSeq(x, list) == \E i \in 1 .. Len(list) : list[i] = x

(* ------------- app-p.py: single-point search with factors -------------- *)

FactorsLoopInit ==
    [iterations |-> 0, quadruplets |-> <<>>, capHit |-> FALSE,
     notice |-> FALSE, progress |-> 0,
     primitive_solutions |-> <<>>, factor_families |-> {}]

\* the factor analysis of a quadruplet just appended: the primitives list
\* and the set of primitive keys of factor_families
analyze_factors(st, found, include_factors) ==
    IF found = <<>> \/ ~include_factors THEN st
    ELSE LET q == found[1]
             common_factor == find_gcd_multiple(q)
             is_primitive == common_factor = 1
             pf == get_primitive_form(q[1], q[2], q[3], q[4])
             primitive_key == IF is_primitive THEN q
                              ELSE <<pf[1], pf[2], pf[3], pf[4]>>
         IN  [st EXCEPT
                !.primitive_solutions =
                    IF is_primitive THEN Append(@, q) ELSE @,
                !.factor_families = @ \cup {primitive_key}]

\* for b in range(max_b, 0, -1): ...
RECURSIVE factors_loop(_, _, _, _, _, _, _)
factors_loop(a, d, target_sum, max_iterations, include_factors, b, st) ==
    IF b < 1 THEN st
    ELSE LET it == st.iterations + 1
             pr == IF it % ProgressEvery = 0 THEN st.progress + 1
                   ELSE st.progress
         IN  IF it > max_iterations
             THEN [st EXCEPT !.iterations = it, !.progress = pr,
                             !.capHit = TRUE, !.notice = TRUE]
             ELSE LET found == try_b(a, b, d, target_sum)
                      st1 == [st EXCEPT !.iterations = it, !.progress = pr,
                                        !.quadruplets = @ \o found]
                  IN  factors_loop(a, d, target_sum, max_iterations,
                                   include_factors, b - 1,
                                   analyze_factors(st1, found, include_factors))

\* for factor in range(2, max_factor + 1): scale one primitive
\* variant: the third component is copied from the primitive, not scaled
RECURSIVE scale_primitive_unscaled_c(_, _, _, _)
scale_primitive_unscaled_c(primitive, factor, max_factor, quadruplets) ==
    IF factor > max_factor THEN quadruplets
    ELSE LET prim_a == primitive[1]
             prim_d == primitive[4]
             new_a == factor * primitive[1]
             new_b == factor * primitive[2]
             new_c == primitive[3]
             new_d == factor * primitive[4]
             scaled_solution == <<new_a, new_b, new_c, new_d>>
         IN  scale_primitive_unscaled_c(primitive, factor + 1, max_factor,
                 IF /\ new_d = new_a + (factor * (prim_d - prim_a))
                    /\ ~InSeq(scaled_solution, quadruplets)
                 THEN Append(quadruplets, scaled_solution)
                 ELSE quadruplets)

RECURSIVE scale_primitive(_, _, _, _)
scale_primitive(primitive, factor, max_factor, quadruplets) ==
    IF factor > max_factor THEN quadruplets
    ELSE LET prim_a == primitive[1]
             prim_d == primitive[4]
             new_a == factor * primitive[1]
             new_b == factor * primitive[2]
             new_c == factor * primitive[3]
             new_d == factor * primitive[4]
             scaled_solution == <<new_a, new_b, new_c, new_d>>
         IN  scale_primitive(primitive, factor + 1, max_factor,
                 IF /\ new_d = new_a + (factor * (prim_d - prim_a))
                    /\ ~InSeq(scaled_solution, quadruplets)
                 THEN Append(quadruplets, scaled_solution)
                 ELSE quadruplets)

\* for primitive in primitive_solutions: ...
RECURSIVE generate_families(_, _, _, _)
generate_families(primitive_solutions, i, max_factor, quadruplets) ==
    IF i > Len(primitive_solutions) THEN quadruplets
    ELSE generate_families(primitive_solutions, i + 1, max_factor,
             scale_primitive(primitive_solutions[i], 2, max_factor,
                             quadruplets))

\* max_factor = int(max_factor) if max_factor > 0 else 5
effective_max_factor(max_factor) ==
    IF max_factor > 0 THEN max_factor ELSE DefaultMaxFactor

\* the list after the generation of the factor families
with_families(st, include_factors, max_factor) ==
    IF include_factors /\ st.primitive_solutions # <<>>
    THEN generate_families(st.primitive_solutions, 1, max_factor,
                           st.quadruplets)
    ELSE st.quadruplets

\* the summary and the returned pair
factors_result(st, quadruplets, max_iterations, max_factor) ==
    [error |-> FALSE, quadruplets |-> quadruplets,
     iterations |-> st.iterations, capHit |-> st.capHit,
     max_iterations |-> max_iterations, max_factor |-> max_factor,
     primitive_solutions |-> st.primitive_solutions,
     text |-> IF quadruplets = <<>>
              THEN [kind |-> "none_found", notice |-> FALSE,
                    iterations |-> 0, progress |-> 0]
              ELSE [kind |-> "found", notice |-> st.notice,
                    iterations |-> 0, progress |-> st.progress]]

\* what follows the b-loop
after_factors_loop(st, include_factors, max_iterations, max_factor) ==
    factors_result(st, with_families(st, include_factors, max_factor),
                   max_iterations, max_factor)

find_cube_quadruplets_with_factors(a, n, max_iterations_in, include_factors, max_factor_in) ==
    IF a <= 0 \/ n <= 0 THEN ErrorResult
    ELSE LET max_iterations == effective_max_iterations(max_iterations_in)
             max_factor == effective_max_factor(max_factor_in)
             d == a + n
             target_sum == d ^ 3 - a ^ 3
             max_b == a - 1
         IN  after_factors_loop(
                 factors_loop(a, d, target_sum, max_iterations,
                              include_factors, max_b, FactorsLoopInit),
                 include_factors, max_iterations, max_factor)

(* ----------------------- app.py: range search -------------------------- *)

\* the inner b-loop of one (a, n) combination
\* variant: the cap test of the range loop is >= instead of >
RECURSIVE range_b_loop_early(_, _, _, _, _, _)
range_b_loop_early(a, d, target_sum, max_iterations_per_combo, b, st) ==
    IF b < 1 THEN st
    ELSE LET it == st.iterations + 1
         IN  IF it >= max_iterations_per_combo
             THEN [st EXCEPT !.iterations = it, !.capHit = TRUE]
             ELSE range_b_loop_early(a, d, target_sum,
                      max_iterations_per_combo, b - 1,
                      [st EXCEPT !.iterations = it,
                                 !.quadruplets = @ \o try_b(a, b, d, target_sum)])

RECURSIVE range_b_loop(_, _, _, _, _, _)
range_b_loop(a, d, target_sum, max_iterations_per_combo, b, st) ==
    IF b < 1 THEN st
    ELSE LET it == st.iterations + 1
         IN  IF it > max_iterations_per_combo
             THEN [st EXCEPT !.iterations = it, !.capHit = TRUE]
             ELSE range_b_loop(a, d, target_sum, max_iterations_per_combo,
                      b - 1,
                      [st EXCEPT !.iterations = it,
                                 !.quadruplets = @ \o try_b(a, b, d, target_sum)])

RangeInit == [all_quadruplets |-> <<>>, combinations_tested |-> 0,
              combinations_with_solutions |-> 0, total_iterations |-> 0,
              max_combo_iterations |-> 0]

\* the bookkeeping after the b-loop of one combination
range_combo(acc, st) ==
    [all_quadruplets |-> acc.all_quadruplets \o st.quadruplets,
     combinations_tested |-> acc.combinations_tested + 1,
     combinations_with_solutions |->
         IF st.quadruplets # <<>>
         THEN acc.combinations_with_solutions + 1
         ELSE acc.combinations_with_solutions,
     total_iterations |-> acc.total_iterations + st.iterations,
     max_combo_iterations |->
         IF st.iterations > acc.max_combo_iterations
         THEN st.iterations ELSE acc.max_combo_iterations]

\* variant: the b-loop starts at a, range(a, 0, -1), one iteration more
RECURSIVE range_n_loop_from_a(_, _, _, _, _)
range_n_loop_from_a(a, n, n_end, max_iterations_per_combo, acc) ==
    IF n > n_end THEN acc
    ELSE LET d == a + n
             target_sum == d ^ 3 - a ^ 3
             max_b == a
         IN  range_n_loop_from_a(a, n + 1, n_end, max_iterations_per_combo,
                 range_combo(acc,
                     range_b_loop(a, d, target_sum,
                                  max_iterations_per_combo, max_b,
                                  LoopInit)))

\* for n in range(n_start, n_end + 1): ...
RECURSIVE range_n_loop(_, _, _, _, _)
range_n_loop(a, n, n_end, max_iterations_per_combo, acc) ==
    IF n > n_end THEN acc
    ELSE LET d == a + n
             target_sum == d ^ 3 - a ^ 3
             max_b == a - 1
         IN  range_n_loop(a, n + 1, n_end, max_iterations_per_combo,
                 range_combo(acc,
                     range_b_loop(a, d, target_sum,
                                  max_iterations_per_combo, max_b,
                                  LoopInit)))

\* for a in range(a_start, a_end + 1): ...
RECURSIVE range_a_loop(_, _, _, _, _, _)
range_a_loop(a, a_end, n_start, n_end, max_iterations_per_combo, acc) ==
    IF a > a_end THEN acc
    ELSE range_a_loop(a + 1, a_end, n_start, n_end,
             max_iterations_per_combo,
             range_n_loop(a, n_start, n_end, max_iterations_per_combo, acc))

\* variant: a reversed range is not swapped
normalize_missing(start, end) == <<start, end>>

\* if a_start > a_end: a_start, a_end = a_end, a_start
normalize(start, end) ==
    IF start > end THEN <<end, start>> ELSE <<start, end>>

\* max_iterations_per_combo = int(...) if max_iterations_per_combo > 0 else 5000
effective_max_iterations_per_combo(max_iterations_per_combo) ==
    IF max_iterations_per_combo > 0 THEN max_iterations_per_combo
    ELSE DefaultMaxIterationsPerCombo

RangeErrorResult ==
    [error |-> TRUE, quadruplets |-> <<>>, total_iterations |-> 0,
     max_combo_iterations |-> 0, combinations_tested |-> 0,
     primitive_solutions |-> <<>>]

\* the returned pair
range_result(acc, max_iterations_per_combo) ==
    [error |-> FALSE, quadruplets |-> acc.all_quadruplets,
     total_iterations |-> acc.total_iterations,
     max_combo_iterations |-> acc.max_combo_iterations,
     combinations_tested |-> acc.combinations_tested,
     primitive_solutions |-> <<>>,
     max_iterations_per_combo |-> max_iterations_per_combo]

\* the loops over the normalized ranges an = (a_start, a_end) and
\* nn = (n_start, n_end)
range_search(an, nn, max_iterations_per_combo) ==
    range_result(
        range_a_loop(an[1], an[2], nn[1], nn[2], max_iterations_per_combo,
                     RangeInit),
        max_iterations_per_combo)

\* variant: only the two start bounds are validated
find_cube_quadruplets_range_starts_only(a_start_in, a_end_in, n_start_in, n_end_in, max_iterations_per_combo_in) ==
    IF a_start_in <= 0 \/ n_start_in <= 0
    THEN RangeErrorResult
    ELSE range_search(
             normalize(a_start_in, a_end_in),
             normalize(n_start_in, n_end_in),
             effective_max_iterations_per_combo(max_iterations_per_combo_in))

find_cube_quadruplets_range(a_start_in, a_end_in, n_start_in, n_end_in, max_iterations_per_combo_in) ==
    IF a_start_in <= 0 \/ a_end_in <= 0 \/ n_start_in <= 0 \/ n_end_in <= 0
    THEN RangeErrorResult
    ELSE range_search(
             normalize(a_start_in, a_end_in),
             normalize(n_start_in, n_end_in),
             effective_max_iterations_per_combo(max_iterations_per_combo_in))

(* ---------------- app-p.py: range search with factors ------------------ *)

\* variant: phase 1 keeps every found tuple, primitive or not
RECURSIVE keep_primitives_unfiltered(_, _, _)
keep_primitives_unfiltered(found_quadruplets, i, acc) ==
    IF i > Len(found_quadruplets) THEN acc
    ELSE LET quad == found_quadruplets[i]
         IN  keep_primitives_unfiltered(found_quadruplets, i + 1,
                 IF ~InSeq(quad, acc.all_quadruplets)
                 THEN [acc EXCEPT !.all_quadruplets = Append(@, quad),
                                  !.primitive_solutions = Append(@, quad)]
                 ELSE acc)

\* for quad in found_quadruplets:
\*     if is_primitive_solution(*quad) and quad not in all_quadruplets: ...
RECURSIVE keep_primitives(_, _, _)
keep_primitives(found_quadruplets, i, acc) ==
    IF i > Len(found_quadruplets) THEN acc
    ELSE LET quad == found_quadruplets[i]
         IN  keep_primitives(found_quadruplets, i + 1,
                 IF /\ is_primitive_solution(quad[1], quad[2], quad[3], quad[4])
                    /\ ~InSeq(quad, acc.all_quadruplets)
                 THEN [acc EXCEPT !.all_quadruplets = Append(@, quad),
                                  !.primitive_solutions = Append(@, quad)]
                 ELSE acc)

FactorsRangeInit ==
    [all_quadruplets |-> <<>>, primitive_solutions |-> <<>>,
     total_iterations |-> 0, max_combo_iterations |-> 0,
     combinations_tested |-> 0]

\* the counters of the loops after one call of the single-point search
count_combo(acc, r) ==
    [acc EXCEPT
       !.total_iterations = @ + r.iterations,
       !.max_combo_iterations =
           IF r.iterations > @ THEN r.iterations ELSE @,
       !.combinations_tested = @ + 1]

\* variant: the extend of the other mode also runs after the primitives
\* of the combination were kept
merge_combo_extend_always(acc, r, focus_on_primitives) ==
    IF focus_on_primitives
    THEN [keep_primitives(r.quadruplets, 1, count_combo(acc, r))
              EXCEPT !.all_quadruplets = @ \o r.quadruplets]
    ELSE [count_combo(acc, r) EXCEPT !.all_quadruplets = @ \o r.quadruplets]

\* what each mode does with the list r.quadruplets returned for one (a, n)
merge_combo(acc, r, focus_on_primitives) ==
    IF focus_on_primitives
    THEN keep_primitives(r.quadruplets, 1, count_combo(acc, r))
    ELSE [count_combo(acc, r) EXCEPT !.all_quadruplets = @ \o r.quadruplets]

\* one (a, n) combination of either mode: the call of the single-point
\* search (with max_factor = 1 in phase 1) and the use of its list
factors_combo(a, n, max_iterations_per_combo, focus_on_primitives, max_factor, acc) ==
    merge_combo(acc,
        find_cube_quadruplets_with_factors(
            a, n, max_iterations_per_combo, TRUE,
            IF focus_on_primitives THEN 1 ELSE max_factor),
        focus_on_primitives)

\* for n in range(n_start, n_end + 1): ...
RECURSIVE factors_n_loop(_, _, _, _, _, _, _)
factors_n_loop(a, n, n_end, max_iterations_per_combo, focus_on_primitives, max_factor, acc) ==
    IF n > n_end THEN acc
    ELSE factors_n_loop(a, n + 1, n_end, max_iterations_per_combo,
             focus_on_primitives, max_factor,
             factors_combo(a, n, max_iterations_per_combo,
                           focus_on_primitives, max_factor, acc))

\* for a in range(a_start, a_end + 1): ...
RECURSIVE factors_a_loop(_, _, _, _, _, _, _, _)
factors_a_loop(a, a_end, n_start, n_end, max_iterations_per_combo, focus_on_primitives, max_factor, acc) ==
    IF a > a_end THEN acc
    ELSE factors_a_loop(a + 1, a_end, n_start, n_end,
             max_iterations_per_combo, focus_on_primitives, max_factor,
             factors_n_loop(a, n_start, n_end, max_iterations_per_combo,
                            focus_on_primitives, max_factor, acc))

\* variant: phase 2 tests the scaled a against the a range only
RECURSIVE scale_in_range_a_only(_, _, _, _, _, _, _, _)
scale_in_range_a_only(primitive, factor, max_factor, a_start, a_end, n_start, n_end, all_quadruplets) ==
    IF factor > max_factor THEN all_quadruplets
    ELSE LET scaled_quad == <<factor * primitive[1], factor * primitive[2],
                              factor * primitive[3], factor * primitive[4]>>
             scaled_a == scaled_quad[1]
         IN  scale_in_range_a_only(primitive, factor + 1, max_factor, a_start,
                 a_end, n_start, n_end,
                 IF /\ a_start <= scaled_a /\ scaled_a <= a_end
                    /\ ~InSeq(scaled_quad, all_quadruplets)
                 THEN Append(all_quadruplets, scaled_quad)
                 ELSE all_quadruplets)

\* phase 2, for factor in range(2, max_factor + 1): scale one primitive
\* and keep the copies inside the search ranges
RECURSIVE scale_in_range(_, _, _, _, _, _, _, _)
scale_in_range(primitive, factor, max_factor, a_start, a_end, n_start, n_end, all_quadruplets) ==
    IF factor > max_factor THEN all_quadruplets
    ELSE LET scaled_quad == <<factor * primitive[1], factor * primitive[2],
                              factor * primitive[3], factor * primitive[4]>>
             scaled_a == scaled_quad[1]
             scaled_d == scaled_quad[4]
             scaled_n == scaled_d - scaled_a
         IN  scale_in_range(primitive, factor + 1, max_factor, a_start,
                 a_end, n_start, n_end,
                 IF /\ a_start <= scaled_a /\ scaled_a <= a_end
                    /\ n_start <= scaled_n /\ scaled_n <= n_end
                    /\ ~InSeq(scaled_quad, all_quadruplets)
                 THEN Append(all_quadruplets, scaled_quad)
                 ELSE all_quadruplets)

\* variant: the factor loop runs one factor too far, range(2, max_factor + 2)
RECURSIVE scale_families_one_more(_, _, _, _, _, _, _, _)
scale_families_one_more(primitive_solutions, i, max_factor, a_start, a_end, n_start, n_end, all_quadruplets) ==
    IF i > Len(primitive_solutions) THEN all_quadruplets
    ELSE scale_families_one_more(primitive_solutions, i + 1, max_factor,
             a_start, a_end, n_start, n_end,
             scale_in_range(primitive_solutions[i], 2, max_factor + 1,
                            a_start, a_end, n_start, n_end, all_quadruplets))

\* phase 2, for primitive in primitive_solutions: ...
RECURSIVE scale_families(_, _, _, _, _, _, _, _)
scale_families(primitive_solutions, i, max_factor, a_start, a_end, n_start, n_end, all_quadruplets) ==
    IF i > Len(primitive_solutions) THEN all_quadruplets
    ELSE scale_families(primitive_solutions, i + 1, max_factor, a_start,
             a_end, n_start, n_end,
             scale_in_range(primitive_solutions[i], 2, max_factor, a_start,
                            a_end, n_start, n_end, all_quadruplets))

\* max_factor = int(max_factor) if max_factor > 0 else 3
effective_range_max_factor(max_factor) ==
    IF max_factor > 0 THEN max_factor ELSE DefaultRangeMaxFactor

\* phase 2 (when phase 1 found primitives) and the returned pair
factors_range_result(acc, an, nn, focus_on_primitives, max_factor, max_iterations_per_combo) ==
    [error |-> FALSE,
     quadruplets |->
         IF focus_on_primitives /\ acc.primitive_solutions # <<>>
         THEN scale_families(acc.primitive_solutions, 1, max_factor,
                             an[1], an[2], nn[1], nn[2],
                             acc.all_quadruplets)
         ELSE acc.all_quadruplets,
     total_iterations |-> acc.total_iterations,
     max_combo_iterations |-> acc.max_combo_iterations,
     combinations_tested |-> acc.combinations_tested,
     primitive_solutions |-> acc.primitive_solutions,
     max_iterations_per_combo |-> max_iterations_per_combo,
     max_factor |-> max_factor]

\* the search over the normalized ranges an = (a_start, a_end) and
\* nn = (n_start, n_end)
factors_range_search(an, nn, max_iterations_per_combo, focus_on_primitives, max_factor) ==
    factors_range_result(
        factors_a_loop(an[1], an[2], nn[1], nn[2], max_iterations_per_combo,
                       focus_on_primitives, max_factor, FactorsRangeInit),
        an, nn, focus_on_primitives, max_factor, max_iterations_per_combo)

find_cube_quadruplets_range_with_factors(a_start_in, a_end_in, n_start_in, n_end_in, max_iterations_per_combo_in, focus_on_primitives, max_factor_in) ==
    IF a_start_in <= 0 \/ a_end_in <= 0 \/ n_start_in <= 0 \/ n_end_in <= 0
    THEN RangeErrorResult
    ELSE factors_range_search(
             normalize(a_start_in, a_end_in),
             normalize(n_start_in, n_end_in),
             effective_max_iterations_per_combo(max_iterations_per_combo_in),
             focus_on_primitives,
             effective_range_max_factor(max_factor_in))

(* ---------------- app.py: step-by-step verification -------------------- *)

\* variant: a check is reported as passed only if the checks before it passed
ordering_constraints_chained(a, b, c, d) ==
    <<d > a, d > a /\ a > b, d > a /\ a > b /\ b > c,
      d > a /\ a > b /\ b > c /\ c > 0>>

\* constraints = [(d > a, ...), (a > b, ...), (b > c, ...), (c > 0, ...)]
ordering_constraints(a, b, c, d) == <<d > a, a > b, b > c, c > 0>>

\* variant: the constraint a > b is written b > a
verify_equation_step_by_step_swapped(a, b, c, d) ==
    IF a <= 0 \/ b <= 0 \/ c <= 0 \/ d <= 0
    THEN [kind |-> "error", equation_satisfied |-> FALSE,
          alt_match |-> FALSE, constraints |-> <<>>,
          all_satisfied |-> FALSE, difference |-> 0]
    ELSE LET left_side == d ^ 3 - a ^ 3
             right_side == b ^ 3 + c ^ 3
         IN  IF left_side = right_side
             THEN LET constraints == <<d > a, b > a, b > c, c > 0>>
                  IN  [kind |-> "satisfied", equation_satisfied |-> TRUE,
                       alt_match |-> (a ^ 3 + b ^ 3 + c ^ 3 = d ^ 3),
                       constraints |-> constraints,
                       all_satisfied |->
                           \A i \in 1 .. Len(constraints) : constraints[i],
                       difference |-> 0]
             ELSE [kind |-> "not_satisfied", equation_satisfied |-> FALSE,
                   alt_match |-> FALSE, constraints |-> <<>>,
                   all_satisfied |-> FALSE,
                   difference |-> Abs(left_side - right_side)]

verify_equation_step_by_step(a, b, c, d) ==
    IF a <= 0 \/ b <= 0 \/ c <= 0 \/ d <= 0
    THEN [kind |-> "error", equation_satisfied |-> FALSE,
          alt_match |-> FALSE, constraints |-> <<>>,
          all_satisfied |-> FALSE, difference |-> 0]
    ELSE LET a_cubed == a ^ 3
             b_cubed == b ^ 3
             c_cubed == c ^ 3
             d_cubed == d ^ 3
             left_side == d_cubed - a_cubed
             right_side == b_cubed + c_cubed
         IN  IF left_side = right_side
             THEN LET alt_check == a_cubed + b_cubed + c_cubed
                      constraints == ordering_constraints(a, b, c, d)
                  IN  [kind |-> "satisfied", equation_satisfied |-> TRUE,
                       alt_match |-> (alt_check = d_cubed),
                       constraints |-> constraints,
                       all_satisfied |->
                           \A i \in 1 .. Len(constraints) : constraints[i],
                       difference |-> 0]
             ELSE [kind |-> "not_satisfied", equation_satisfied |-> FALSE,
                   alt_match |-> FALSE, constraints |-> <<>>,
                   all_satisfied |-> FALSE,
                   difference |-> Abs(left_side - right_side)]

(* --------------- quadrapulets.py: exhaustive reference ----------------- *)

\* for c in range(b - 1, 0, -1): if b**3 + c**3 == target: append
RECURSIVE reference_inner(_, _, _, _, _)
reference_inner(a, d, target, b, c) ==
    IF c < 1 THEN <<>>
    ELSE (IF b ^ 3 + c ^ 3 = target THEN << <<a, b, c, d>> >> ELSE <<>>)
         \o reference_inner(a, d, target, b, c - 1)

\* for b in range(a - 1, 1, -1): ...
RECURSIVE reference_outer(_, _, _, _)
reference_outer(a, d, target, b) ==
    IF b < 2 THEN <<>>
    ELSE reference_inner(a, d, target, b, b - 1)
         \o reference_outer(a, d, target, b - 1)

find_cube_quadruplets(a, n) ==
    LET d == a + n
        target == d ^ 3 - a ^ 3
    IN  reference_outer(a, d, target, a - 1)

(* ------------------------------ inputs --------------------------------- *)

AInputs == NonPos \cup (1 .. MaxA)
NInputs == NonPos \cup (1 .. MaxN)
IterInputs == NonPos \cup (1 .. MaxIter) \cup {TestBudget, UiBudget}

FactorInputs == NonPos \cup (1 .. MaxFactor)
RangeAInputs == {0} \cup (1 .. RangeMaxA)
RangeNInputs == {0} \cup (1 .. RangeMaxN)
RangeIterInputs == {0} \cup (1 .. RangeMaxIter) \cup {UiRangeBudget}
RangeFactorInputs == {0} \cup (1 .. RangeMaxFactor)
ValueInputs == {0} \cup (1 .. MaxValue)

(* ------------------------------ actions -------------------------------- *)

Idle == fn = "none"

\* the Single Search button: find_cube_quadruplets_improved(a, n, max_iter)
CallImproved ==
    /\ Idle
    /\ \E a \in AInputs, n \in NInputs, mi \in IterInputs :
          /\ fn' = "improved"
          /\ args' = [a |-> a, n |-> n, max_iterations |-> mi]
          /\ ret' = find_cube_quadruplets_improved(a, n, mi)
    /\ UNCHANGED fpErr

\* the Enhanced Single Search button
CallWithFactors ==
    /\ Idle
    /\ \E a \in AInputs, n \in NInputs, mi \in IterInputs,
          inc \in BOOLEAN, mf \in FactorInputs :
          /\ fn' = "with_factors"
          /\ args' = [a |-> a, n |-> n, max_iterations |-> mi,
                      include_factors |-> inc, max_factor |-> mf]
          /\ ret' = find_cube_quadruplets_with_factors(a, n, mi, inc, mf)
    /\ UNCHANGED fpErr

\* the Range Search button
CallRange ==
    /\ Idle
    /\ \E a_start \in RangeAInputs, a_end \in RangeAInputs,
          n_start \in RangeNInputs, n_end \in RangeNInputs,
          mi \in RangeIterInputs :
          /\ fn' = "range"
          /\ args' = [a_start |-> a_start, a_end |-> a_end,
                      n_start |-> n_start, n_end |-> n_end,
                      max_iterations_per_combo |-> mi]
          /\ ret' = find_cube_quadruplets_range(a_start, a_end, n_start,
                                                n_end, mi)
    /\ UNCHANGED fpErr

\* the Enhanced Range Search button
CallRangeWithFactors ==
    /\ Idle
    /\ \E a_start \in RangeAInputs, a_end \in RangeAInputs,
          n_start \in RangeNInputs, n_end \in RangeNInputs,
          mi \in RangeIterInputs, focus \in BOOLEAN,
          mf \in RangeFactorInputs :
          /\ fn' = "range_with_factors"
          /\ args' = [a_start |-> a_start, a_end |-> a_end,
                      n_start |-> n_start, n_end |-> n_end,
                      max_iterations_per_combo |-> mi,
                      focus_on_primitives |-> focus, max_factor |-> mf]
          /\ ret' = find_cube_quadruplets_range_with_factors(
                        a_start, a_end, n_start, n_end, mi, focus, mf)
    /\ UNCHANGED fpErr

\* the Verify Step-by-Step button
CallVerify ==
    /\ Idle
    /\ \E a \in ValueInputs, b \in ValueInputs, c \in ValueInputs,
          d \in ValueInputs :
          /\ fn' = "verify"
          /\ args' = <<a, b, c, d>>
          /\ ret' = verify_equation_step_by_step(a, b, c, d)
    /\ UNCHANGED fpErr

\* get_primitive_form on a quadruplet of positive integers (its callers
\* pass the quadruplets of a result list)
CallPrimitiveForm ==
    /\ Idle
    /\ \E a \in 1 .. MaxValue, b \in 1 .. MaxValue, c \in 1 .. MaxValue,
          d \in 1 .. MaxValue :
          /\ fn' = "primitive_form"
          /\ args' = <<a, b, c, d>>
          /\ ret' = get_primitive_form(a, b, c, d)
    /\ UNCHANGED fpErr

\* the interface has shown the result and waits for the next call
Return ==
    /\ ~Idle
    /\ fn' = "none"
    /\ args' = <<>>
    /\ ret' = <<>>
    /\ UNCHANGED fpErr

Init ==
    /\ fn = "none"
    /\ args = <<>>
    /\ ret = <<>>
    /\ fpErr = 0

\* the same program with a cube-root estimate that may be off by one
InitAnyEstimate ==
    /\ fn = "none"
    /\ args = <<>>
    /\ ret = <<>>
    /\ fpErr \in {-1, 0, 1}

Next ==
    \/ CallImproved
    \/ CallWithFactors
    \/ CallRange
    \/ CallRangeWithFactors
    \/ CallVerify
    \/ CallPrimitiveForm
    \/ Return

Spec == Init /\ [][Next]_vars

SpecAnyEstimate == InitAnyEstimate /\ [][Next]_vars

(* ------------------------------ claims --------------------------------- *)

\* a^3 + b^3 + c^3 = d^3 in exact arithmetic and d > a > b > c > 0
ValidQuadruplet(q) ==
    /\ q[1] ^ 3 + q[2] ^ 3 + q[3] ^ 3 = q[4] ^ 3
    /\ q[4] > q[1] /\ q[1] > q[2] /\ q[2] > q[3] /\ q[3] > 0

SingleSearch == fn \in {"improved", "with_factors"}
RangeSearch == fn \in {"range", "range_with_factors"}

ValidSinglePoint == fn = "improved" /\ args.a > 0 /\ args.n > 0

Min2(x, y) == IF x < y THEN x ELSE y
Max2(x, y) == IF x < y THEN y ELSE x

\* C1: every quadruplet returned by find_cube_quadruplets_improved(a, n,
\* maxIterations) with a, n, maxIterations > 0 is (a, b, c, a + n) with
\* a^3 + b^3 + c^3 = d^3 exactly and d > a > b > c > 0, whatever integer
\* the cube-root estimate proposes as c (exact, one below or one above).
C1_ReturnedQuadrupletsValid ==
    (ValidSinglePoint /\ args.max_iterations > 0) =>
        \A i \in 1 .. Len(ret.quadruplets) :
            /\ ValidQuadruplet(ret.quadruplets[i])
            /\ ret.quadruplets[i][1] = args.a
            /\ ret.quadruplets[i][4] = args.a + args.n

\* a search that returned two quadruplets
C1_Witness ==
    /\ ValidSinglePoint /\ args.max_iterations > 0
    /\ Len(ret.quadruplets) = 2

\* C2: when the cap is not hit (maxIterations >= a - 1) the single-point
\* search returns the list of the exhaustive double loop of
\* quadrapulets.py, in the same order.
C2_EqualsExhaustiveReference ==
    (/\ ValidSinglePoint /\ args.max_iterations > 0
     /\ args.max_iterations >= args.a - 1) =>
        ret.quadruplets = find_cube_quadruplets(args.a, args.n)

\* an uncapped search whose list has two quadruplets
C2_Witness ==
    /\ ValidSinglePoint /\ args.max_iterations >= args.a - 1
    /\ ~ret.capHit
    /\ Len(ret.quadruplets) = 2

\* C3 as stated: verify_equation_step_by_step(3, 4, 5, 6) reports the
\* equation satisfied and the four ordering checks d > a, a > b, b > c,
\* c > 0 all true.
C3_Original ==
    (fn = "verify" /\ args = <<3, 4, 5, 6>>) =>
        /\ ret.equation_satisfied
        /\ ret.constraints = <<TRUE, TRUE, TRUE, TRUE>>

\* C3 amended: verify_equation_step_by_step(3, 4, 5, 6) reports the
\* equation satisfied (also in the form a^3 + b^3 + c^3 = d^3), the checks
\* d > a and c > 0 true and the checks a > b and b > c false, so not all
\* constraints are satisfied.
C3_KnownQuadrupletReport ==
    (fn = "verify" /\ args = <<3, 4, 5, 6>>) =>
        /\ ret.equation_satisfied
        /\ ret.alt_match
        /\ ret.constraints = <<TRUE, FALSE, FALSE, TRUE>>
        /\ ~ret.all_satisfied

\* the verification of (3, 4, 5, 6) has returned
C3_Witness ==
    /\ fn = "verify" /\ args = <<3, 4, 5, 6>>
    /\ ret.kind = "satisfied"

FromB(list, lowest) == SelectSeq(list, LAMBDA q : q[2] >= lowest)

\* C5: for a, n > 0 and 0 < maxIterations < a - 1 the search stops by the
\* cap with the counter at maxIterations + 1 and returns the quadruplets of
\* the uncapped result whose b lies in [a - maxIterations, a - 1]; with
\* maxIterations >= a - 1 the cap is not hit and the counter ends at a - 1.
C5_CapAndCounter ==
    (ValidSinglePoint /\ args.max_iterations > 0) =>
        IF args.max_iterations < args.a - 1
        THEN /\ ret.capHit
             /\ ret.iterations = args.max_iterations + 1
             /\ ret.quadruplets =
                    FromB(find_cube_quadruplets(args.a, args.n),
                          args.a - args.max_iterations)
        ELSE /\ ~ret.capHit
             /\ ret.iterations = args.a - 1

\* a capped search that returned one of the two quadruplets of (a, n)
C5_Witness ==
    /\ ValidSinglePoint /\ args.max_iterations > 0
    /\ args.max_iterations < args.a - 1
    /\ ret.capHit
    /\ Len(ret.quadruplets) = 1
    /\ Len(find_cube_quadruplets(args.a, args.n)) = 2

\* C6: whenever a single-point search is stopped by the iteration cap, the
\* text it returns holds the truncation notice, also when the list is
\* empty.
C6_TruncationReported ==
    (SingleSearch /\ ~ret.error /\ ret.capHit) => ret.text.notice

\* C7 as stated: a call with a non-positive maxIterations or a non-positive
\* maxFactor returns an error and no quadruplets.
C7_Original ==
    /\ (SingleSearch /\ args.max_iterations <= 0) =>
           (ret.error /\ ret.quadruplets = <<>>)
    /\ (fn \in {"with_factors", "range_with_factors"}
        /\ args.max_factor <= 0) =>
           (ret.error /\ ret.quadruplets = <<>>)

\* C7 amended: a non-positive maxIterations or maxFactor is not rejected
\* but replaced by a default (10000 iterations for the single-point
\* searches, 5000 per combination for the range searches, factor 5 for the
\* search with factors, factor 3 for the range search with factors), and
\* the call returns what the call with the default returns; it returns an
\* error only when a, n or a range bound is non-positive.
C7_NonPositiveBecomesDefault ==
    /\ (SingleSearch /\ args.max_iterations <= 0
        /\ args.a > 0 /\ args.n > 0) =>
           /\ ~ret.error
           /\ ret.max_iterations = DefaultMaxIterations
           /\ fn = "improved" =>
                  ret = find_cube_quadruplets_improved(
                            args.a, args.n, DefaultMaxIterations)
    /\ (fn = "with_factors" /\ args.max_factor <= 0
        /\ args.a > 0 /\ args.n > 0) =>
           /\ ~ret.error
           /\ ret.max_factor = DefaultMaxFactor
           /\ ret = find_cube_quadruplets_with_factors(
                        args.a, args.n, args.max_iterations,
                        args.include_factors, DefaultMaxFactor)
    /\ (RangeSearch /\ args.a_start > 0 /\ args.a_end > 0
        /\ args.n_start > 0 /\ args.n_end > 0) =>
           /\ ~ret.error
           /\ args.max_iterations_per_combo <= 0 =>
                  ret.max_iterations_per_combo = DefaultMaxIterationsPerCombo
           /\ (fn = "range_with_factors" /\ args.max_factor <= 0) =>
                  /\ ret.max_factor = DefaultRangeMaxFactor
                  /\ ret = find_cube_quadruplets_range_with_factors(
                               args.a_start, args.a_end, args.n_start,
                               args.n_end, args.max_iterations_per_combo,
                               args.focus_on_primitives,
                               DefaultRangeMaxFactor)

\* a search with factors called with budget 0 and factor 0 that returned
\* the primitive (5, 4, 3, 6) and its multiples by 2, 3, 4 and 5
C7_Witness ==
    /\ fn = "with_factors"
    /\ args.max_iterations <= 0 /\ args.max_factor <= 0
    /\ args.include_factors
    /\ Len(ret.quadruplets) = DefaultMaxFactor
    /\ ret.quadruplets[DefaultMaxFactor] = <<25, 20, 15, 30>>

\* C8: a single-point search with a <= 0 or n <= 0 and a range search with
\* one of its four bounds <= 0 (start and end in either order) return an
\* error with an empty list and run no iteration of the search.
C8_NonPositiveRejected ==
    /\ (SingleSearch /\ (args.a <= 0 \/ args.n <= 0)) =>
           /\ ret.error
           /\ ret.text.kind = "error"
           /\ ret.quadruplets = <<>>
           /\ ret.iterations = 0
    /\ (RangeSearch /\ (args.a_start <= 0 \/ args.a_end <= 0
                        \/ args.n_start <= 0 \/ args.n_end <= 0)) =>
           /\ ret.error
           /\ ret.quadruplets = <<>>
           /\ ret.total_iterations = 0
           /\ ret.combinations_tested = 0

\* a range search rejected for its end bound, given below its start
C8_Witness ==
    /\ fn = "range"
    /\ args.a_start = 5 /\ args.a_end = 0
    /\ args.n_start = 1 /\ args.n_end = 1
    /\ ret.error

\* C9: for positive bounds a range search called with a reversed a-range
\* and/or a reversed n-range returns the list, in the same order, that the
\* call with the bounds in start <= end order returns
\* (find_cube_quadruplets_range and both modes of
\* find_cube_quadruplets_range_with_factors).
C9_ReversedRangeNormalized ==
    (/\ RangeSearch
     /\ args.a_start > 0 /\ args.a_end > 0
     /\ args.n_start > 0 /\ args.n_end > 0
     /\ (args.a_start > args.a_end \/ args.n_start > args.n_end)) =>
        LET lo_a == Min2(args.a_start, args.a_end)
            hi_a == Max2(args.a_start, args.a_end)
            lo_n == Min2(args.n_start, args.n_end)
            hi_n == Max2(args.n_start, args.n_end)
        IN  ret.quadruplets =
                IF fn = "range"
                THEN find_cube_quadruplets_range(
                         lo_a, hi_a, lo_n, hi_n,
                         args.max_iterations_per_combo).quadruplets
                ELSE find_cube_quadruplets_range_with_factors(
                         lo_a, hi_a, lo_n, hi_n,
                         args.max_iterations_per_combo,
                         args.focus_on_primitives,
                         args.max_factor).quadruplets

\* a two-phase range search with both ranges reversed that returned two
\* primitives and a scaled copy
C9_Witness ==
    /\ fn = "range_with_factors"
    /\ args.a_start > args.a_end /\ args.a_end > 0
    /\ args.n_start > args.n_end /\ args.n_end > 0
    /\ args.focus_on_primitives
    /\ Len(ret.quadruplets) = 3

\* C10: for positive a, b, c, d get_primitive_form returns
\* (a', b', c', d', f) with (f a', f b', f c', f d') = (a, b, c, d).
C10_PrimitiveFormRoundTrip ==
    fn = "primitive_form" =>
        <<ret[5] * ret[1], ret[5] * ret[2], ret[5] * ret[3],
          ret[5] * ret[4]>> = args

\* a quadruplet reduced by a common factor above 1
C10_Witness ==
    /\ fn = "primitive_form"
    /\ ret[5] > 1
    /\ args[1] # args[2]

\* k divides every one of the four components
CommonDivisor(k, a, b, c, d) ==
    a % k = 0 /\ b % k = 0 /\ c % k = 0 /\ d % k = 0

\* C11: for every quadruplet of positive integers, get_primitive_form returns
\* a factor of at least 1 and four components with no common divisor above 1;
\* is_primitive_solution is true of them, and get_primitive_form applied to
\* them returns the same four components with factor 1.
C11_PrimitiveFormIsPrimitive ==
    fn = "primitive_form" =>
        /\ ret[5] >= 1
        /\ \A k \in 2 .. MaxValue :
               ~CommonDivisor(k, ret[1], ret[2], ret[3], ret[4])
        /\ is_primitive_solution(ret[1], ret[2], ret[3], ret[4])
        /\ get_primitive_form(ret[1], ret[2], ret[3], ret[4])
               = <<ret[1], ret[2], ret[3], ret[4], 1>>

\* a quadruplet with a common factor above 1 was reduced
C11_Witness ==
    /\ fn = "primitive_form"
    /\ CommonDivisor(2, args[1], args[2], args[3], args[4])
    /\ ret[5] >= 2
    /\ ret[1] > ret[2]

\* every entry of the list satisfies the equation and the ordering
AllValid(list) == \A i \in 1 .. Len(list) : ValidQuadruplet(list[i])

\* C12: every quadruplet that family scaling appends (a factor in
\* 2..max_factor times a found primitive), in find_cube_quadruplets_with_factors
\* and in the scaling phase of find_cube_quadruplets_range_with_factors,
\* satisfies a^3 + b^3 + c^3 = d^3 and d > a > b > c > 0.
C12_ScaledQuadrupletsValid ==
    /\ (fn = "with_factors" /\ ~ret.error /\ args.include_factors)
           => AllValid(ret.quadruplets)
    /\ (fn = "range_with_factors" /\ ~ret.error)
           => AllValid(ret.quadruplets)

\* the search at (5, 1) appended 2 * (5, 4, 3, 6)
C12_Witness ==
    /\ fn = "with_factors"
    /\ args.a = 5 /\ args.n = 1 /\ args.include_factors
    /\ Len(ret.quadruplets) >= 2
    /\ ret.quadruplets[1] = <<5, 4, 3, 6>>
    /\ ret.quadruplets[2] = <<10, 8, 6, 12>>

\* C13: in the list returned by one call of find_cube_quadruplets_improved the
\* b components are strictly decreasing from first to last, so no b and no
\* quadruplet occurs twice.
C13_BStrictlyDecreasing ==
    fn = "improved" =>
        \A i, j \in 1 .. Len(ret.quadruplets) :
            i < j => /\ ret.quadruplets[i][2] > ret.quadruplets[j][2]
                     /\ ret.quadruplets[i] # ret.quadruplets[j]

\* a call that returned two quadruplets: b = 36, then b = 30
C13_Witness ==
    /\ fn = "improved"
    /\ Len(ret.quadruplets) = 2
    /\ ret.quadruplets[1][2] = 36
    /\ ret.quadruplets[2][2] = 30

\* the four inputs of the verification are positive integers
VerifyPositive ==
    /\ fn = "verify"
    /\ \A i \in 1 .. 4 : args[i] > 0

VerifyEquationHolds == args[4] ^ 3 - args[1] ^ 3 = args[2] ^ 3 + args[3] ^ 3

VerifyOrdering ==
    <<args[4] > args[1], args[1] > args[2], args[2] > args[3], args[3] > 0>>

\* C14 as stated: for every positive input the report carries each of the four
\* ordering checks d > a, a > b, b > c, c > 0, whatever the outcome of the
\* equation check.
C14_Original == VerifyPositive => ret.constraints = VerifyOrdering

\* C14 amended: when d^3 - a^3 = b^3 + c^3 the report carries each of the
\* four ordering checks with its own outcome; when the equation fails the
\* report carries no ordering check, only the absolute difference.
C14_OrderingReportedWhenEquationHolds ==
    VerifyPositive =>
        IF VerifyEquationHolds
        THEN /\ ret.kind = "satisfied"
             /\ ret.constraints = VerifyOrdering
        ELSE /\ ret.kind = "not_satisfied"
             /\ ret.constraints = <<>>
             /\ ret.difference =
                    Abs((args[4] ^ 3 - args[1] ^ 3) - (args[2] ^ 3 + args[3] ^ 3))

\* the equation holds and a failed check is followed by checks that pass
C14_Witness ==
    /\ VerifyPositive
    /\ VerifyEquationHolds
    /\ ret.constraints = <<TRUE, FALSE, TRUE, TRUE>>

\* a call of the range search with factors that passed the input check
FactorsRangeCall == fn = "range_with_factors" /\ ~ret.error

\* the normalized ranges of a range call
LoA == Min2(args.a_start, args.a_end)
HiA == Max2(args.a_start, args.a_end)
LoN == Min2(args.n_start, args.n_end)
HiN == Max2(args.n_start, args.n_end)

\* a and n = d - a of the quadruplet lie in the normalized ranges
InWindow(q) ==
    /\ LoA <= q[1] /\ q[1] <= HiA
    /\ LoN <= q[4] - q[1] /\ q[4] - q[1] <= HiN

\* C15: with focus_on_primitives = true every quadruplet returned by
\* find_cube_quadruplets_range_with_factors, primitive or scaled, has
\* a_start <= a <= a_end and n_start <= d - a <= n_end for the normalized
\* ranges.
C15_FocusResultInsideRanges ==
    (FactorsRangeCall /\ args.focus_on_primitives) =>
        \A i \in 1 .. Len(ret.quadruplets) : InWindow(ret.quadruplets[i])

\* the scaled copy 2 * (5, 4, 3, 6) was kept: a = 10 and n = 2 are in range
C15_Witness ==
    /\ FactorsRangeCall /\ args.focus_on_primitives
    /\ args.a_start <= args.a_end /\ args.n_start <= args.n_end
    /\ InSeq(<<5, 4, 3, 6>>, ret.quadruplets)
    /\ InSeq(<<10, 8, 6, 12>>, ret.quadruplets)

\* no tuple occurs at two positions of the list
NoDuplicates(list) ==
    \A i, j \in 1 .. Len(list) : i < j => list[i] # list[j]

\* C16: with focus_on_primitives = true the list of
\* find_cube_quadruplets_range_with_factors holds no quadruplet twice, neither
\* after phase 1 (the primitives) nor after phase 2 (with the scaled copies).
C16_FocusNoDuplicates ==
    (FactorsRangeCall /\ args.focus_on_primitives) =>
        /\ NoDuplicates(ret.primitive_solutions)
        /\ NoDuplicates(ret.quadruplets)

\* two primitives from phase 1 and one scaled copy from phase 2
C16_Witness ==
    /\ FactorsRangeCall /\ args.focus_on_primitives
    /\ ret.primitive_solutions = << <<5, 4, 3, 6>>, <<8, 6, 1, 9>> >>
    /\ ret.quadruplets = << <<5, 4, 3, 6>>, <<8, 6, 1, 9>>, <<10, 8, 6, 12>> >>

\* C17: every quadruplet returned by find_cube_quadruplets_with_factors with
\* include_factors = true, those added by factor scaling included, fits the
\* constraint of the call: its first component is the input a and its last
\* component is a + n.
C17_FitsOriginalConstraint ==
    (fn = "with_factors" /\ ~ret.error /\ args.include_factors) =>
        \A i \in 1 .. Len(ret.quadruplets) :
            /\ ret.quadruplets[i][1] = args.a
            /\ ret.quadruplets[i][4] = args.a + args.n

\* the lists of find_cube_quadruplets_improved(a, n', max_iterations) for
\* n' = n .. n_end, one after the other
RECURSIVE ImprovedRow(_, _, _, _)
ImprovedRow(a, n, n_end, max_iterations) ==
    IF n > n_end THEN <<>>
    ELSE find_cube_quadruplets_improved(a, n, max_iterations).quadruplets
             \o ImprovedRow(a, n + 1, n_end, max_iterations)

\* the rows for a' = a .. a_end, one after the other
RECURSIVE ImprovedGrid(_, _, _, _, _)
ImprovedGrid(a, a_end, n_start, n_end, max_iterations) ==
    IF a > a_end THEN <<>>
    ELSE ImprovedRow(a, n_start, n_end, max_iterations)
             \o ImprovedGrid(a + 1, a_end, n_start, n_end, max_iterations)

\* p comes before q in the order a ascending, n ascending, b descending
GridBefore(p, q) ==
    \/ p[1] < q[1]
    \/ p[1] = q[1] /\ p[4] < q[4]
    \/ p[1] = q[1] /\ p[4] = q[4] /\ p[2] > q[2]

\* C18: for positive bounds and max_iterations_per_combo > 0,
\* find_cube_quadruplets_range returns the concatenation of the lists of
\* find_cube_quadruplets_improved(a, n, max_iterations_per_combo) over the
\* grid, a ascending in the outer loop and n ascending in the inner loop, so
\* the list is ordered by a ascending, then n ascending, then b descending.
C18_RangeIsConcatenationOfSingleSearches ==
    (fn = "range" /\ ~ret.error /\ args.max_iterations_per_combo > 0) =>
        /\ ret.quadruplets =
               ImprovedGrid(LoA, HiA, LoN, HiN, args.max_iterations_per_combo)
        /\ \A i, j \in 1 .. Len(ret.quadruplets) :
               i < j => GridBefore(ret.quadruplets[i], ret.quadruplets[j])

\* a range search with a budget of 2 per combination that found three
\* quadruplets while the cap was hit in some combination
C18_Witness ==
    /\ fn = "range" /\ ~ret.error
    /\ args.max_iterations_per_combo = 2
    /\ ret.max_combo_iterations > 2
    /\ ret.quadruplets = << <<5, 4, 3, 6>>, <<8, 6, 1, 9>>, <<10, 8, 6, 12>> >>

\* the set of the entries of a list
SeqSet(list) == {list[i] : i \in 1 .. Len(list)}

\* every quadruplet with a and d - a in the normalized ranges that satisfies
\* the equation and the ordering, by the exhaustive reference search
ReferenceWindow ==
    UNION {SeqSet(find_cube_quadruplets(a, n)) : a \in LoA .. HiA, n \in LoN .. HiN}

\* the four components have no common divisor above 1
Primitive(q) == \A k \in 2 .. q[3] : ~CommonDivisor(k, q[1], q[2], q[3], q[4])

\* q is p scaled by a factor in 2 .. max_factor
ScaledFrom(q, p, max_factor) ==
    \E f \in 2 .. max_factor : q = <<f * p[1], f * p[2], f * p[3], f * p[4]>>

\* a two-phase range search whose budget covers the longest b-loop (a - 1
\* iterations for a = a_end), so that the cap is never hit
FocusCallUncapped ==
    /\ FactorsRangeCall /\ args.focus_on_primitives
    /\ ret.max_iterations_per_combo >= HiA - 1

\* C19 as stated: with focus_on_primitives = true and a cap that is never
\* hit, the returned list contains every valid quadruplet with a and d - a in
\* the ranges, the set the plain range search returns.
C19_Original ==
    FocusCallUncapped =>
        /\ ReferenceWindow \subseteq SeqSet(ret.quadruplets)
        /\ SeqSet(ret.quadruplets) =
               SeqSet(find_cube_quadruplets_range(
                          args.a_start, args.a_end, args.n_start, args.n_end,
                          args.max_iterations_per_combo).quadruplets)

\* C19 amended: the returned set is the primitive quadruplets of the window
\* together with those non-primitive quadruplets of the window that are a
\* primitive of the window scaled by a factor in 2 .. max_factor; the other
\* non-primitive quadruplets of the window are left out.
C19_FocusReturnsPrimitivesAndTheirFamilies ==
    FocusCallUncapped =>
        SeqSet(ret.quadruplets) =
            {q \in ReferenceWindow :
                \/ Primitive(q)
                \/ \E p \in ReferenceWindow :
                       Primitive(p) /\ ScaledFrom(q, p, ret.max_factor)}

\* the window holds (8, 6, 1, 9) and (10, 8, 6, 12); the second is twice
\* (5, 4, 3, 6), which is outside the window, and is not returned
C19_Witness ==
    /\ FocusCallUncapped
    /\ ReferenceWindow = { <<8, 6, 1, 9>>, <<10, 8, 6, 12>> }
    /\ ret.quadruplets = << <<8, 6, 1, 9>> >>

\* C20: with focus_on_primitives = false the list returned by
\* find_cube_quadruplets_range_with_factors holds no quadruplet twice, for
\* every positive range and every max_factor >= 1.
C20_NoFocusNoDuplicates ==
    (FactorsRangeCall /\ ~args.focus_on_primitives /\ args.max_factor >= 1) =>
        NoDuplicates(ret.quadruplets)

\* C21: with focus_on_primitives = true, in the list returned by
\* find_cube_quadruplets_range_with_factors every primitive quadruplet comes
\* before every non-primitive one, the primitives are in the order of their
\* discovery (a ascending, then n ascending, then b descending), and every
\* non-primitive quadruplet is f times a primitive quadruplet earlier in the
\* list, for a factor f in 2 .. max_factor.
C21_PrimitivesFirstThenTheirMultiples ==
    (FactorsRangeCall /\ args.focus_on_primitives) =>
        \A j \in 1 .. Len(ret.quadruplets) :
            IF Primitive(ret.quadruplets[j])
            THEN \A i \in 1 .. j - 1 :
                     /\ Primitive(ret.quadruplets[i])
                     /\ GridBefore(ret.quadruplets[i], ret.quadruplets[j])
            ELSE \E i \in 1 .. j - 1 :
                     /\ Primitive(ret.quadruplets[i])
                     /\ ScaledFrom(ret.quadruplets[j], ret.quadruplets[i],
                                   ret.max_factor)

\* two primitives in discovery order, then twice the first of them, found
\* with max_factor = 2
C21_Witness ==
    /\ FactorsRangeCall /\ args.focus_on_primitives
    /\ ret.max_factor = 2
    /\ Len(ret.quadruplets) = 3
    /\ Primitive(ret.quadruplets[1]) /\ Primitive(ret.quadruplets[2])
    /\ ret.quadruplets[3] = <<10, 8, 6, 12>>

\* the number of b-loop iterations of the combination (a, n) in the running
\* range search: the inlined loop of find_cube_quadruplets_range, or the call
\* of the single-point search made by find_cube_quadruplets_range_with_factors
ComboIterations(a, n, max_iterations_per_combo) ==
    IF fn = "range"
    THEN range_b_loop(a, a + n, (a + n) ^ 3 - a ^ 3,
                      max_iterations_per_combo, a - 1, LoopInit).iterations
    ELSE find_cube_quadruplets_with_factors(
             a, n, max_iterations_per_combo, TRUE, 1).iterations

\* the number of (a, n) combinations of the normalized ranges
GridSize == (HiA - LoA + 1) * (HiN - LoN + 1)

\* C22: for positive bounds and max_iterations_per_combo > 0 the range search
\* returns after visiting every combination of the grid; the b-loop of a
\* combination (a, n) runs at most min(a - 1, max_iterations_per_combo + 1)
\* iterations, so the total is at most
\* |a range| * |n range| * (max_iterations_per_combo + 1).
C22_RangeIterationsBounded ==
    (RangeSearch /\ ~ret.error /\ args.max_iterations_per_combo > 0) =>
        /\ ret.combinations_tested = GridSize
        /\ \A a \in LoA .. HiA, n \in LoN .. HiN :
               ComboIterations(a, n, args.max_iterations_per_combo)
                   <= Min2(a - 1, args.max_iterations_per_combo + 1)
        /\ ret.max_combo_iterations
               <= Min2(HiA - 1, args.max_iterations_per_combo + 1)
        /\ ret.total_iterations
               <= GridSize * (args.max_iterations_per_combo + 1)

\* a search of several combinations with a budget of 1 in which a b-loop
\* was cut at its second iteration
C22_Witness ==
    /\ RangeSearch /\ ~ret.error
    /\ args.max_iterations_per_combo = 1
    /\ ret.combinations_tested >= 4
    /\ ret.max_combo_iterations = 2
    /\ ret.total_iterations > ret.combinations_tested

====
